---- MODULE Spec2Model ----
(***************************************************************************)
(* State-machine model of feeds/models.py (django-feed-reader): the stored *)
(* rows of Category, Source, Post and Enclosure, in-memory Post instances  *)
(* loaded from the rows, the Post mutators, the cascading deletes, the     *)
(* derived unread counts and the health colour of a Source.                *)
(***************************************************************************)
EXTENDS Integers, Sequences, FiniteSets, TLC

----------------------------------------------------------------------------
(* Bounds of the model *)

MaxCategories == 1
MaxSources == 2
MaxPosts == 2
MaxEnclosures == 1
MaxDays == 516
MaxSkewDays == 3
TicksPerDay == 2

(* The NULL of a nullable column; every stored number is >= 0. *)
NULL == 0 - 1

CategoryIds == 1..MaxCategories
SourceIds == 1..MaxSources
PostIds == 1..MaxPosts
EnclosureIds == 1..MaxEnclosures

(* The handles of the Post instances held in memory at one time. *)
CopyIds == {"A", "B"}

(* The guids the parsed entries carry. *)
Guids == {"a", "b"}
MaxNow == MaxDays * TicksPerDay

VARIABLES
    categories,     \* ids of the stored Category rows
    sources,        \* id -> stored Source row
    posts,          \* id -> stored Post row
    enclosures,     \* id -> stored Enclosure row
    nextId,         \* per table, the next primary key (never reused)
    copies,         \* slot -> a Post instance in memory (pk = NULL: empty)
    toggleCalls,    \* post id -> completed toggle_starred calls, modulo 2
    now,            \* the clock, in ticks
    css             \* the last rendered health_box (<<>>: none yet)

vars == <<categories, sources, posts, enclosures, nextId, copies,
          toggleCalls, now, css>>

----------------------------------------------------------------------------
(* Rows *)

(* A Source as created: the field defaults of the model class. *)
NewSource(cat) ==
    [category |-> cat, max_index |-> 0, live |-> TRUE,
     last_change |-> NULL, last_success |-> NULL]

(* A Post as created: read and starred take their defaults. *)
NewPost(s, g, idx, t) ==
    [source |-> s, guid |-> g, index |-> idx, title |-> "title",
     body |-> "body", found |-> t, read |-> FALSE, starred |-> FALSE]

NewEnclosure(p) == [post |-> p, length |-> 0]

(* An in-memory Post instance: the primary key and the loaded field values. *)
NoCopy == [pk |-> NULL, row |-> NewPost(NULL, "", NULL, NULL)]

Remove(f, gone) == [k \in DOMAIN f \ gone |-> f[k]]

Add(f, k, v) == [x \in DOMAIN f \cup {k} |-> IF x = k THEN v ELSE f[x]]

----------------------------------------------------------------------------
(* Related-object queries *)

(* source.posts: the Posts whose foreign key is the Source. *)
PostsOf(s) == {p \in DOMAIN posts : posts[p].source = s}

(* post.enclosures *)
EnclosuresOf(p) == {e \in DOMAIN enclosures : enclosures[e].post = p}

(* category.sources *)
SourcesOf(c) == {s \in DOMAIN sources : sources[s].category = c}

(* Mutant: the count without its read filter, self.posts.count(). *)
Source_posts_count(s) == Cardinality(PostsOf(s))

(* Source.unread_posts_count: self.posts.filter(read=False).count() *)
Source_unread_posts_count(s) ==
    Cardinality({p \in PostsOf(s) : posts[p].read = FALSE})

(* The rows of Source LEFT OUTER JOIN Post restricted to category = c; a
   Source without Posts yields one row whose Post side is NULL. *)
JoinRows(c) ==
    {r \in SourcesOf(c) \X (DOMAIN posts \cup {NULL}) :
        IF r[2] = NULL THEN PostsOf(r[1]) = {}
                       ELSE posts[r[2]].source = r[1]}

(* Mutant: Count('posts') without the filter on posts__read. *)
Category_posts_count(c) == Cardinality({r \in JoinRows(c) : r[2] # NULL})

(* Category.unread_posts_count: Count('posts', filter=Q(posts__read=False))
   over the joined rows; COUNT skips the rows whose Post side is NULL. *)
Category_unread_posts_count(c) ==
    Cardinality({r \in JoinRows(c) : r[2] # NULL /\ posts[r[2]].read = FALSE})

----------------------------------------------------------------------------
(* Mutant: save() without update_fields writes every loaded column. *)
SaveAllFields(inst, f) ==
    IF inst.pk \in DOMAIN posts
    THEN [posts EXCEPT ![inst.pk] = inst.row]
    ELSE posts

(* Model.save(update_fields=[f]) of the instance inst: UPDATE of the one
   column where pk matches; a row that no longer exists is not re-created
   (Django raises DatabaseError and the table is left as it is). *)
SaveField(inst, f) ==
    IF inst.pk \in DOMAIN posts
    THEN [posts EXCEPT ![inst.pk] = [@ EXCEPT ![f] = inst.row[f]]]
    ELSE posts

(* The instance in slot c with its field f set to v. *)
SetAttr(c, f, v) == [copies[c] EXCEPT !.row = [@ EXCEPT ![f] = v]]

----------------------------------------------------------------------------
(* Creation *)

CreateCategory ==
    /\ categories' = categories \cup {nextId.category}
    /\ nextId' = [nextId EXCEPT !.category = @ + 1]
    /\ UNCHANGED <<sources, posts, enclosures, copies, toggleCalls, now, css>>

CreateSource(cat) ==
    /\ cat \in categories \cup {NULL}
    /\ sources' = Add(sources, nextId.source, NewSource(cat))
    /\ nextId' = [nextId EXCEPT !.source = @ + 1]
    /\ UNCHANGED <<categories, posts, enclosures, copies, toggleCalls, now, css>>

(* Insert of one Post row with the next primary key. *)
InsertPost(row) ==
    /\ posts' = Add(posts, nextId.post, row)
    /\ toggleCalls' = Add(toggleCalls, nextId.post, 0)
    /\ nextId' = [nextId EXCEPT !.post = @ + 1]

(* Mutant: the new Post takes max_index + 1 but max_index is not advanced. *)
ingest_stale_index(s, g) ==
    /\ s \in DOMAIN sources
    /\ IF \E p \in DOMAIN posts : posts[p].source = s /\ posts[p].guid = g
       THEN UNCHANGED <<posts, toggleCalls, nextId>>
       ELSE InsertPost(NewPost(s, g, sources[s].max_index + 1, nextId.post))
    /\ UNCHANGED <<categories, sources, enclosures, copies, now, css>>

(* Deduplication and indexing of one parsed entry with guid g for Source s:
   an entry whose (source, guid) is stored is skipped; a new one becomes a
   Post with index = max_index + 1, and max_index advances with the insert. *)
ingest(s, g) ==
    /\ s \in DOMAIN sources
    /\ IF \E p \in PostsOf(s) : posts[p].guid = g
       THEN UNCHANGED <<sources, posts, toggleCalls, nextId>>
       ELSE /\ InsertPost(NewPost(s, g, sources[s].max_index + 1, nextId.post))
            /\ sources' = [sources EXCEPT ![s].max_index = @ + 1]
    /\ UNCHANGED <<categories, enclosures, copies, now, css>>

AddEnclosure(p) ==
    /\ p \in DOMAIN posts
    /\ enclosures' = Add(enclosures, nextId.enclosure, NewEnclosure(p))
    /\ nextId' = [nextId EXCEPT !.enclosure = @ + 1]
    /\ UNCHANGED <<categories, sources, posts, copies, toggleCalls, now, css>>

----------------------------------------------------------------------------
(* Post instances and mutators *)

(* Post.objects.get(pk=p): a fresh instance holding the stored values. *)
Load(c, p) ==
    /\ p \in DOMAIN posts
    /\ copies' = [copies EXCEPT ![c] = [pk |-> p, row |-> posts[p]]]
    /\ UNCHANGED <<categories, sources, posts, enclosures, nextId,
                   toggleCalls, now, css>>

(* Mutant: the flag is set on the instance and never saved. *)
mark_read_unsaved(c) ==
    /\ copies[c].pk # NULL
    /\ copies' = [copies EXCEPT ![c] = SetAttr(c, "read", TRUE)]
    /\ UNCHANGED <<categories, sources, posts, enclosures, nextId,
                   toggleCalls, now, css>>

mark_read(c) ==
    /\ copies[c].pk # NULL
    /\ copies' = [copies EXCEPT ![c] = SetAttr(c, "read", TRUE)]
    /\ posts' = SaveField(copies'[c], "read")
    /\ UNCHANGED <<categories, sources, enclosures, nextId, toggleCalls,
                   now, css>>

unmark_read(c) ==
    /\ copies[c].pk # NULL
    /\ copies' = [copies EXCEPT ![c] = SetAttr(c, "read", FALSE)]
    /\ posts' = SaveField(copies'[c], "read")
    /\ UNCHANGED <<categories, sources, enclosures, nextId, toggleCalls,
                   now, css>>

toggle_starred(c) ==
    /\ copies[c].pk # NULL
    /\ copies' = [copies EXCEPT
                    ![c] = SetAttr(c, "starred", ~copies[c].row.starred)]
    /\ posts' = SaveField(copies'[c], "starred")
    /\ toggleCalls' = [p \in DOMAIN toggleCalls |->
                         IF p = copies[c].pk THEN (toggleCalls[p] + 1) % 2
                                             ELSE toggleCalls[p]]
    /\ UNCHANGED <<categories, sources, enclosures, nextId, now, css>>

----------------------------------------------------------------------------
(* Deletion: Django collects the rows that refer to a deleted row through a
   foreign key with on_delete=CASCADE and deletes them with it. *)

(* Post.source: on_delete=CASCADE *)
CascadePosts(ss) == {p \in DOMAIN posts : posts[p].source \in ss}

(* Mutant: on_delete=DO_NOTHING, the Enclosures are left behind. *)
KeepEnclosures(ps) == {}

(* Enclosure.post: on_delete=CASCADE *)
CascadeEnclosures(ps) == {e \in DOMAIN enclosures : enclosures[e].post \in ps}

(* Source.category: on_delete=CASCADE *)
CascadeSources(cs) == {s \in DOMAIN sources : sources[s].category \in cs}

DeleteRows(cs, ss, ps, es) ==
    /\ categories' = categories \ cs
    /\ sources' = Remove(sources, ss)
    /\ posts' = Remove(posts, ps)
    /\ toggleCalls' = Remove(toggleCalls, ps)
    /\ enclosures' = Remove(enclosures, es)
    /\ UNCHANGED <<nextId, copies, now, css>>

DeleteEnclosure(e) ==
    /\ e \in DOMAIN enclosures
    /\ DeleteRows({}, {}, {}, {e})

DeletePost(p) ==
    /\ p \in DOMAIN posts
    /\ DeleteRows({}, {}, {p}, CascadeEnclosures({p}))

DeleteSource(s) ==
    /\ s \in DOMAIN sources
    /\ LET ps == CascadePosts({s}) IN
       DeleteRows({}, {s}, ps, CascadeEnclosures(ps))

DeleteCategory(c) ==
    /\ c \in categories
    /\ LET ss == CascadeSources({c})
           ps == CascadePosts(ss)
       IN DeleteRows({c}, ss, ps, CascadeEnclosures(ps))

----------------------------------------------------------------------------
(* Insert of a Post row as the storage accepts it: the foreign key must name
   a stored Source; the model class declares no unique constraint. *)
PostCreate(s, g, idx) ==
    /\ s \in DOMAIN sources
    /\ InsertPost(NewPost(s, g, idx, nextId.post))
    /\ UNCHANGED <<categories, sources, enclosures, copies, now, css>>

----------------------------------------------------------------------------
(* Source.health_box *)

(* timedelta.days of now - last_change: whole days, rounded down. *)
DeltaDays(t, lc) == (t - lc) \div TicksPerDay

(* int(days / 2): true division, then truncation towards zero. *)
IntHalf(d) == IF d >= 0 THEN d \div 2 ELSE 0 - ((0 - d) \div 2)

HexDigits ==
    <<"0", "1", "2", "3", "4", "5", "6", "7",
      "8", "9", "a", "b", "c", "d", "e", "f">>

RECURSIVE Hex(_)
Hex(n) ==
    IF n < 16 THEN <<HexDigits[n + 1]>>
              ELSE Hex(n \div 16) \o <<HexDigits[(n % 16) + 1]>>

(* "%02x" % n: the sign, the hexadecimal digits, zero-padded to width 2. *)
Format02x(n) ==
    IF n < 0 THEN <<"-">> \o Hex(0 - n)
    ELSE IF n < 16 THEN <<"0">> \o Hex(n)
    ELSE Hex(n)

HealthDays(s) == IntHalf(DeltaDays(now, sources[s].last_change))

HealthRed(s) == IF HealthDays(s) > 255 THEN 255 ELSE HealthDays(s)

HealthGreen(s) == IF 255 - HealthDays(s) < 0 THEN 0 ELSE 255 - HealthDays(s)

health_box(s) ==
    IF ~sources[s].live THEN <<"#", "c", "c", "c", ";">>
    ELSE IF sources[s].last_change = NULL \/ sources[s].last_success = NULL
    THEN <<"#", "F", "0", "0", ";">>
    ELSE <<"#">> \o Format02x(HealthRed(s)) \o Format02x(HealthGreen(s))
               \o <<"0", "0">>

(* The page shows the health box of Source s. *)
RenderHealth(s) ==
    /\ s \in DOMAIN sources
    /\ css' = health_box(s)
    /\ UNCHANGED <<categories, sources, posts, enclosures, nextId, copies,
                   toggleCalls, now>>

(* Time passes; what was rendered for the earlier instant is gone. *)
Tick ==
    /\ now' = now + 1
    /\ css' = <<>>
    /\ UNCHANGED <<categories, sources, posts, enclosures, nextId, copies,
                   toggleCalls>>

----------------------------------------------------------------------------
Init ==
    /\ categories = {}
    /\ sources = <<>>
    /\ posts = <<>>
    /\ enclosures = <<>>
    /\ nextId = [category |-> 1, source |-> 1, post |-> 1, enclosure |-> 1]
    /\ copies = [c \in CopyIds |-> NoCopy]
    /\ toggleCalls = <<>>
    /\ now = 0
    /\ css = <<>>

(* The primary keys are capped to keep the state space finite. *)
CanCreateCategory == nextId.category <= MaxCategories
CanCreateSource == nextId.source <= MaxSources
CanCreatePost == nextId.post <= MaxPosts
CanCreateEnclosure == nextId.enclosure <= MaxEnclosures

Next ==
    \/ CanCreateCategory /\ CreateCategory
    \/ CanCreateSource /\ \E cat \in CategoryIds \cup {NULL} : CreateSource(cat)
    \/ CanCreatePost /\ \E s \in SourceIds, g \in Guids : ingest(s, g)
    \/ CanCreateEnclosure /\ \E p \in PostIds : AddEnclosure(p)
    \/ \E c \in CopyIds, p \in PostIds : Load(c, p)
    \/ \E c \in CopyIds : mark_read(c)
    \/ \E c \in CopyIds : unmark_read(c)
    \/ \E c \in CopyIds : toggle_starred(c)
    \/ \E e \in EnclosureIds : DeleteEnclosure(e)
    \/ \E p \in PostIds : DeletePost(p)
    \/ \E s \in SourceIds : DeleteSource(s)
    \/ \E c \in CategoryIds : DeleteCategory(c)

Spec == Init /\ [][Next]_vars

(* One Source is subscribed; its feed carries three entries. *)
InitMutators ==
    /\ categories = {}
    /\ sources = Add(<<>>, 1, NewSource(NULL))
    /\ posts = <<>>
    /\ enclosures = <<>>
    /\ nextId = [category |-> 1, source |-> 2, post |-> 1, enclosure |-> 1]
    /\ copies = [c \in CopyIds |-> NoCopy]
    /\ toggleCalls = <<>>
    /\ now = 0
    /\ css = <<>>

FeedGuids == Guids \cup {"c"}

(* The Post mutators called through two instances of the Posts. *)
NextMutators ==
    \/ CanCreatePost /\ \E s \in SourceIds, g \in FeedGuids : ingest(s, g)
    \/ \E c \in CopyIds, p \in PostIds : Load(c, p)
    \/ \E c \in CopyIds : mark_read(c)
    \/ \E c \in CopyIds : unmark_read(c)
    \/ \E c \in CopyIds : toggle_starred(c)

SpecMutators == InitMutators /\ [][NextMutators]_vars

(* Sources without Category, their Posts, and the mutators called through
   one instance at a time. *)
NextCount ==
    \/ CanCreateSource /\ CreateSource(NULL)
    \/ CanCreatePost /\ \E s \in SourceIds, g \in Guids : ingest(s, g)
    \/ \E p \in PostIds : Load("A", p)
    \/ mark_read("A")
    \/ unmark_read("A")
    \/ toggle_starred("A")
    \/ \E p \in PostIds : DeletePost(p)
    \/ \E s \in SourceIds : DeleteSource(s)

SpecCount == Init /\ [][NextCount]_vars

(* Categories, their Sources and the read flag of their Posts. *)
NextCategory ==
    \/ CanCreateCategory /\ CreateCategory
    \/ CanCreateSource /\ \E cat \in CategoryIds \cup {NULL} : CreateSource(cat)
    \/ CanCreatePost /\ \E s \in SourceIds, g \in Guids : ingest(s, g)
    \/ \E p \in PostIds : Load("A", p)
    \/ mark_read("A")
    \/ unmark_read("A")
    \/ \E p \in PostIds : DeletePost(p)
    \/ \E c \in CategoryIds : DeleteCategory(c)

SpecCategory == Init /\ [][NextCategory]_vars

(* Creation and deletion of the rows of every table, every Source in a
   Category. *)
NextCascade ==
    \/ CanCreateCategory /\ CreateCategory
    \/ CanCreateSource /\ \E cat \in CategoryIds : CreateSource(cat)
    \/ CanCreatePost /\ \E s \in SourceIds, g \in Guids : ingest(s, g)
    \/ CanCreateEnclosure /\ \E p \in PostIds : AddEnclosure(p)
    \/ \E e \in EnclosureIds : DeleteEnclosure(e)
    \/ \E p \in PostIds : DeletePost(p)
    \/ \E s \in SourceIds : DeleteSource(s)
    \/ \E c \in CategoryIds : DeleteCategory(c)

SpecCascade == Init /\ [][NextCascade]_vars

(* Post rows inserted directly into the table. *)
NextStorage ==
    \/ CanCreateSource /\ CreateSource(NULL)
    \/ CanCreatePost /\ \E s \in SourceIds, g \in Guids, idx \in 0..MaxPosts :
                          PostCreate(s, g, idx)
    \/ \E p \in PostIds : DeletePost(p)

SpecStorage == Init /\ [][NextStorage]_vars

(* One Source with any live flag and timestamps, rendered as time passes. *)
InitHealth ==
    /\ \E live \in BOOLEAN,
          lc \in {NULL} \cup (0..(MaxSkewDays * TicksPerDay)),
          ls \in {NULL, 0} :
          sources = Add(<<>>, 1, [NewSource(NULL) EXCEPT !.live = live,
                                     !.last_change = lc, !.last_success = ls])
    /\ categories = {}
    /\ posts = <<>>
    /\ enclosures = <<>>
    /\ nextId = [category |-> 1, source |-> 2, post |-> 1, enclosure |-> 1]
    /\ copies = [c \in CopyIds |-> NoCopy]
    /\ toggleCalls = <<>>
    /\ now = 0
    /\ css = <<>>

NextHealth ==
    \/ now < MaxNow /\ Tick
    \/ \E s \in SourceIds : RenderHealth(s)

SpecHealth == InitHealth /\ [][NextHealth]_vars

----------------------------------------------------------------------------
(* Properties *)

(* C1: a Post is created unread and unstarred; a mark_read call leaves the
   stored read flag true and an unmark_read call leaves it false, whatever
   the flag was; both calls are possible on every loaded instance; and the
   stored read flag changes in no other step, so it always equals the value
   set by the last call. *)
ReadFollowsLastCall ==
    [][/\ \A p \in DOMAIN posts' \ DOMAIN posts :
             posts'[p].read = FALSE /\ posts'[p].starred = FALSE
       /\ \A c \in CopyIds :
             /\ (mark_read(c) /\ copies[c].pk \in DOMAIN posts)
                   => posts'[copies[c].pk].read = TRUE
             /\ (unmark_read(c) /\ copies[c].pk \in DOMAIN posts)
                   => posts'[copies[c].pk].read = FALSE
             /\ copies[c].pk # NULL
                   => (ENABLED mark_read(c)) /\ (ENABLED unmark_read(c))
       /\ \A p \in DOMAIN posts \cap DOMAIN posts' :
             posts'[p].read # posts[p].read
                => \E c \in CopyIds :
                      copies[c].pk = p /\ (mark_read(c) \/ unmark_read(c))
      ]_vars

(* C1 witness: a Post marked read through one instance and unmarked through
   another: the stored flag is false, the first instance still says true. *)
ReadThenUnreadReached ==
    \E p \in DOMAIN posts :
        /\ posts[p].read = FALSE
        /\ copies["A"].pk = p /\ copies["A"].row.read = TRUE
        /\ copies["B"].pk = p /\ copies["B"].row.read = FALSE

(* Every stored Post keeps every column but f, and no row comes or goes. *)
OtherFieldsKept(f) ==
    /\ DOMAIN posts' = DOMAIN posts
    /\ \A p \in DOMAIN posts :
          posts'[p] = [posts[p] EXCEPT ![f] = posts'[p][f]]

(* C2: mark_read and unmark_read change no stored column but read, and
   toggle_starred changes no stored column but starred, also when the
   instance they are called on holds stale values of the other columns. *)
ReadStarredIndependent ==
    [][\A c \in CopyIds :
          /\ (mark_read(c) \/ unmark_read(c)) => OtherFieldsKept("read")
          /\ toggle_starred(c) => OtherFieldsKept("starred")
      ]_vars

(* C2 witness: the stored Post is read and starred, written through two
   instances each of which holds the stale value of the other flag. *)
StaleCopiesBothWritten ==
    \E p \in DOMAIN posts :
        /\ posts[p].read = TRUE /\ posts[p].starred = TRUE
        /\ copies["A"].pk = p
        /\ copies["A"].row.read = TRUE /\ copies["A"].row.starred = FALSE
        /\ copies["B"].pk = p
        /\ copies["B"].row.read = FALSE /\ copies["B"].row.starred = TRUE

(* In one Source the indices are distinct, increase with the insertion time
   and never exceed the max_index of the Source. *)
IndexOrdered ==
    \A p \in DOMAIN posts :
        /\ posts[p].source \in DOMAIN sources
              => posts[p].index <= sources[posts[p].source].max_index
        /\ \A q \in DOMAIN posts :
              (p # q /\ posts[p].source = posts[q].source)
                 => /\ posts[p].index # posts[q].index
                    /\ posts[p].found < posts[q].found
                          => posts[p].index < posts[q].index

(* C3: within one Source the indices of the Posts are unique and strictly
   ordered by insertion time; a new Post takes an index above every index
   given before in its Source; no step changes the index of a Post. *)
IndexAssignedOnce ==
    [][/\ IndexOrdered'
       /\ \A p \in DOMAIN posts' \ DOMAIN posts :
             posts'[p].index > sources[posts'[p].source].max_index
       /\ \A p \in DOMAIN posts \cap DOMAIN posts' :
             posts'[p].index = posts[p].index
      ]_vars

(* C3 witness: a Source holds two Posts, the later one with the greater
   index, the earlier one marked read through an instance. *)
TwoIndexedPostsReached ==
    \E p, q \in DOMAIN posts :
        /\ posts[p].source = posts[q].source
        /\ posts[p].found < posts[q].found
        /\ posts[p].index < posts[q].index
        /\ posts[p].read = TRUE

(* C4 (as claimed): no two stored Posts of one Source carry the same guid. *)
GuidUniquePerSource ==
    \A p, q \in DOMAIN posts :
        (p # q /\ posts[p].source = posts[q].source)
           => posts[p].guid # posts[q].guid

(* Every Post names a stored Source, every Enclosure a stored Post. *)
Integrity ==
    /\ \A p \in DOMAIN posts : posts[p].source \in DOMAIN sources
    /\ \A e \in DOMAIN enclosures : enclosures[e].post \in DOMAIN posts

(* C5: after every step every Post refers to a stored Source and every
   Enclosure to a stored Post; deleting a Source removes exactly that
   Source, its Posts and their Enclosures, and deleting a Post removes
   exactly that Post and its Enclosures. *)
CascadeKeepsIntegrity ==
    [][/\ Integrity'
       /\ \A s \in SourceIds :
             DeleteSource(s)
                => /\ sources' = Remove(sources, {s})
                   /\ posts' = Remove(posts, PostsOf(s))
                   /\ enclosures' =
                         Remove(enclosures,
                                UNION {EnclosuresOf(p) : p \in PostsOf(s)})
       /\ \A p \in PostIds :
             DeletePost(p)
                => /\ sources' = sources
                   /\ posts' = Remove(posts, {p})
                   /\ enclosures' = Remove(enclosures, EnclosuresOf(p))
      ]_vars

(* C5 witness: the first Source is gone, the Enclosure that was created is
   gone with it, and a Post of another Source is still stored. *)
CascadeReached ==
    /\ nextId.source > 1 /\ 1 \notin DOMAIN sources
    /\ nextId.enclosure > 1 /\ enclosures = <<>>
    /\ \E p \in DOMAIN posts : posts[p].source \in DOMAIN sources

(* C6 (as claimed): a Source leaves the table only in a step that is the
   delete of that Source itself. *)
SourceOnlyDeletedExplicitly ==
    [][\A s \in DOMAIN sources \ DOMAIN sources' : DeleteSource(s)]_vars

(* The change of the unread count of Source s in a step. *)
UnreadDelta(s) ==
    Source_unread_posts_count(s)' - Source_unread_posts_count(s)

(* 1 when Post p belongs to Source s and its stored read flag is r. *)
Counts(p, s, r) == IF posts[p].source = s /\ posts[p].read = r THEN 1 ELSE 0

(* C7: mark_read lowers the unread count of the Source of an unread Post by
   exactly 1 and unmark_read raises that of a read Post by exactly 1; a
   repeated mark_read or unmark_read and toggle_starred change no count; an
   ingested Post adds 1 and a deleted unread Post takes 1 from the count of
   its own Source; the count of every other Source stays, also when a
   Source is deleted with its Posts. *)
UnreadCountTracksReadFlag ==
    [][/\ \A c \in CopyIds :
             copies[c].pk \in DOMAIN posts
                => /\ mark_read(c)
                         => \A s \in DOMAIN sources :
                               UnreadDelta(s) = 0 - Counts(copies[c].pk, s, FALSE)
                   /\ unmark_read(c)
                         => \A s \in DOMAIN sources :
                               UnreadDelta(s) = Counts(copies[c].pk, s, TRUE)
                   /\ toggle_starred(c)
                         => \A s \in DOMAIN sources : UnreadDelta(s) = 0
       /\ \A p \in DOMAIN posts :
             DeletePost(p)
                => \A s \in DOMAIN sources :
                      UnreadDelta(s) = 0 - Counts(p, s, FALSE)
       /\ \A d \in DOMAIN sources :
             DeleteSource(d)
                => \A s \in DOMAIN sources \ {d} : UnreadDelta(s) = 0
       /\ \A p \in DOMAIN posts' \ DOMAIN posts :
             \A s \in DOMAIN sources :
                UnreadDelta(s) = IF posts'[p].source = s THEN 1 ELSE 0
      ]_vars

(* C7 witness: one Source holds only a Post marked read (count 0), another
   Source holds an unread Post (count 1). *)
ReadAndUnreadSourcesReached ==
    \E s1, s2 \in DOMAIN sources :
        /\ s1 # s2
        /\ PostsOf(s1) # {} /\ Source_unread_posts_count(s1) = 0
        /\ Source_unread_posts_count(s2) = 1

RECURSIVE SumUnread(_)
(* The sum of Source.unread_posts_count over the Sources in S. *)
SumUnread(S) ==
    IF S = {} THEN 0
    ELSE LET s == CHOOSE x \in S : TRUE
         IN Source_unread_posts_count(s) + SumUnread(S \ {s})

ToggleIsInvolution ==
    \A p \in DOMAIN posts : posts[p].starred = (toggleCalls[p] = 1)

HexDigitSet == {HexDigits[i] : i \in 1..16} \cup {"A", "B", "C", "D", "E", "F"}

(* C10 (as claimed): what health_box renders is '#ccc;', '#F00;' or a '#'
   followed by exactly six hexadecimal digits, with red and green both in
   0..255, wherever last_change lies relative to now. *)
HealthBoxWellFormed ==
    css # <<>>
       => /\ \/ css = <<"#", "c", "c", "c", ";">>
             \/ css = <<"#", "F", "0", "0", ";">>
             \/ /\ Len(css) = 7
                /\ css[1] = "#"
                /\ \A i \in 2..7 : css[i] \in HexDigitSet
          /\ \A s \in DOMAIN sources :
                (sources[s].live /\ sources[s].last_change # NULL
                    /\ sources[s].last_success # NULL)
                   => HealthRed(s) \in 0..255 /\ HealthGreen(s) \in 0..255

====
